---- MODULE Spec2Model ----
(***************************************************************************)
(* Model of frc2::ProfiledPIDCommand<Distance>                             *)
(* (wpilibNewCommands/src/main/native/include/frc2/command/                *)
(*  ProfiledPIDCommand.h).                                                 *)
(*                                                                         *)
(* The command binds a ProfiledPIDController to three callbacks and is     *)
(* driven by a scheduler through Initialize / Execute / End.  The model    *)
(* keeps the command's four members, the set of requirements held by the   *)
(* command base, a log of the calls the command makes on its               *)
(* collaborators, and what the output callback last received.              *)
(***************************************************************************)
EXTENDS Integers, Sequences, FiniteSets, TLC

(* ------------------------------ bounds --------------------------------- *)
\* positions are 0..MaxPos, velocities 0..MaxVel (0 is the zero of the unit)
MaxPos == 1
MaxVel == 1
\* number of lifecycle calls the scheduler makes in one behaviour
MaxCalls == 3
\* subsystems are 1..NumSubsystems, a requirements list has at most MaxReqs entries
NumSubsystems == 2
MaxReqs == 2

(* ------------------------------ values --------------------------------- *)
Position == 0..MaxPos
Velocity == 0..MaxVel

\* frc::TrapezoidProfile<Distance>::State, a (position, velocity) pair
State == [position : Position, velocity : Velocity]

MkState(p, v) == [position |-> p, velocity |-> v]

\* State{Distance_t(0), Velocity_t(0)}
ZeroState == MkState(0, 0)

Subsystems == 1..NumSubsystems

RECURSIVE SeqsUpTo(_, _)
SeqsUpTo(S, n) ==
  IF n = 0 THEN {<<>>}
  ELSE LET shorter == SeqsUpTo(S, n - 1)
       IN  shorter \cup {Append(s, x) : s \in {t \in shorter : Len(t) = n - 1}, x \in S}

\* the std::initializer_list<Subsystem*> values a caller may pass
RequirementLists == SeqsUpTo(Subsystems, MaxReqs)

Range(s) == {s[i] : i \in 1..Len(s)}

Min(a, b) == IF a < b THEN a ELSE b

Abs(a) == IF a < 0 THEN -a ELSE a

\* position of the first occurrence of e in the sequence s, 0 when absent
IndexOf(s, e) ==
  IF e \in Range(s) THEN CHOOSE i \in 1..Len(s) : s[i] = e /\ \A j \in 1..(i - 1) : s[j] # e
  ELSE 0

\* number of occurrences of e in s
Count(s, e) == Cardinality({i \in 1..Len(s) : s[i] = e})

(* ------------------- the controller (frc::ProfiledPIDController) ------- *)
\* The controller's own code is outside the command's header; its state is
\* the profile setpoint, the integral accumulator, and whether the profile
\* is anchored (Reset re-anchors it at the next measurement).
Controllers ==
  [setpoint : State, totalError : Position, anchored : BOOLEAN]

\* Reset(): clears the integral term and re-anchors the profile
ControllerReset(c) ==
  [setpoint |-> c.setpoint, totalError |-> 0, anchored |-> FALSE]

\* one step of the position p toward the goal position
Toward(p, goal) == IF p < goal THEN p + 1 ELSE IF p > goal THEN p - 1 ELSE p

\* Calculate(measurement, goal): advances the profile one tick toward the
\* goal, runs the PID against the measurement, returns the effort
ControllerCalculate(c, m, g) ==
  LET base  == IF c.anchored THEN c.setpoint ELSE MkState(m, 0)
      pos   == Toward(base.position, g.position)
      vel   == IF pos = g.position THEN g.velocity ELSE Min(MaxVel, 1)
      total == Min(MaxPos, c.totalError + Abs(pos - m))
  IN  [ctrl   |-> [setpoint |-> MkState(pos, vel), totalError |-> total, anchored |-> TRUE],
       effort |-> (pos - m) + total + vel]

\* GetSetpoint(): the profile sample produced by the last Calculate
ControllerGetSetpoint(c) == c.setpoint

(* ------------------------------ state ---------------------------------- *)
VARIABLES
  form,             \* which constructor built the command ("none" before construction)
  controllerArg,    \* the caller's controller object, passed to the constructor
  goalArg,          \* the constant goal passed to the constructor (ZeroState when none)
  requirementsArg,  \* the requirements list passed to the constructor
  goalSource,       \* the constructor parameter goalSource of lines 70-79: its lifetime and callable
  m_controller,     \* member: the command's own controller
  m_measurement,    \* member: the measurement callback
  m_goal,           \* member: the goal callback, a State-valued closure
  m_useOutput,      \* member: the output callback
  m_requirements,   \* the requirement set held by the command base
  nInitialize,      \* lifecycle calls made by the scheduler
  nExecute,
  nEnd,
  nMeasurement,     \* invocations of m_measurement
  nGoal,            \* invocations of m_goal
  nUseOutput,       \* invocations of m_useOutput
  nReset,           \* calls of m_controller.Reset
  nCalculate,       \* calls of m_controller.Calculate
  nGetSetpoint,     \* calls of m_controller.GetSetpoint
  tick,             \* what the last lifecycle call did
  lastOutput,       \* what m_useOutput last received
  reference,        \* the caller's reference obtained from GetController
  other             \* a second command, copy-constructed from this one

vars ==
  <<form, controllerArg, goalArg, requirementsArg, goalSource, m_controller,
    m_measurement, m_goal, m_useOutput, m_requirements, nInitialize, nExecute,
    nEnd, nMeasurement, nGoal, nUseOutput, nReset, nCalculate, nGetSetpoint,
    tick, lastOutput, reference, other>>

\* a controller as first configured, and one that has already run
FreshController == [setpoint |-> ZeroState, totalError |-> 0, anchored |-> FALSE]

UsedController ==
  [setpoint |-> MkState(MaxPos, MaxVel), totalError |-> MaxPos, anchored |-> TRUE]

ControllerArgs == {FreshController, UsedController}

\* a callable that is not there
NoCallable == [kind |-> "none", goal |-> ZeroState]

\* the user's State-valued goal function, stored by value in m_goal
UserStateFunction == [kind |-> "userState", goal |-> ZeroState]

\* the user's position-valued goal function
UserPositionFunction == [kind |-> "userPosition", goal |-> ZeroState]

\* nothing recorded yet
NoTick ==
  [op |-> "none", log |-> <<>>, fault |-> FALSE, interrupted |-> FALSE,
   resetsSeen |-> 0,
   measurement |-> 0, userGoal |-> ZeroState, goal |-> ZeroState,
   calcMeasurement |-> 0, calcGoal |-> ZeroState, effort |-> 0,
   setpointRead |-> ZeroState]

NoOutput == [effort |-> 0, setpoint |-> ZeroState]

\* no reference taken: held says whether the caller holds one, target what
\* it refers to, written whether the caller has changed the controller
\* through it since the last lifecycle call, observed whether the last
\* lifecycle call came right after such a change, view the state of the
\* referenced controller as the caller last saw or left it
NoReference ==
  [held |-> FALSE, target |-> "none", written |-> FALSE, observed |-> FALSE,
   view |-> FreshController]

\* no second command
NoOther == [exists |-> FALSE, m_controller |-> FreshController]

Init ==
  /\ form = "none"
  /\ controllerArg \in ControllerArgs
  /\ goalArg = ZeroState
  /\ requirementsArg = <<>>
  /\ goalSource = [alive |-> FALSE, fn |-> NoCallable]
  /\ m_controller = FreshController
  /\ m_measurement = "unbound"
  /\ m_goal = NoCallable
  /\ m_useOutput = "unbound"
  /\ m_requirements = {}
  /\ nInitialize = 0
  /\ nExecute = 0
  /\ nEnd = 0
  /\ nMeasurement = 0
  /\ nGoal = 0
  /\ nUseOutput = 0
  /\ nReset = 0
  /\ nCalculate = 0
  /\ nGetSetpoint = 0
  /\ tick = NoTick
  /\ lastOutput = NoOutput
  /\ reference = NoReference
  /\ other = NoOther

(* ---------------------------- construction ----------------------------- *)
\* CommandBase::AddRequirements: the base keeps a set, so a subsystem named
\* twice is held once
AddRequirements(held, requirements) == held \cup Range(requirements)

\* a constructor that leaves the list out and registers the default {}
RegisteredRequirements_Default(requirements) == AddRequirements({}, <<>>)

\* line 57: the canonical constructor registers the list it was given
RegisteredRequirements(requirements) == AddRequirements({}, requirements)

\* lines 75-79: the lambda [&goalSource] { return State{goalSource(), 0_mps}; }
\* holds a reference to the constructor's by-value parameter goalSource
PositionLambda == [kind |-> "positionLambda", goal |-> ZeroState]

\* a constant-State adapter that keeps the position and drops the velocity
ConstStateLambda_ZeroVelocity(goal) ==
  [kind |-> "constState", goal |-> MkState(goal.position, 0)]

\* line 95: the lambda [goal] { return goal; } over a State, a copy of goal
ConstStateLambda(goal) == [kind |-> "constState", goal |-> goal]

\* line 113: the lambda [goal] { return goal; } over a position: a
\* position-valued callable holding a copy of goal
ConstPositionLambda(goal) == [kind |-> "constPosition", goal |-> MkState(goal, 0)]

LifecycleUnchanged ==
  UNCHANGED <<nInitialize, nExecute, nEnd, nMeasurement, nGoal, nUseOutput,
              tick, lastOutput, reference, other>>

\* a constructor that resets the controller it stores
StoreController_Reset(controller) ==
  [controller |-> ControllerReset(controller), log |-> <<"Reset">>]

\* line 53: m_controller{controller}, the member copy-initialized from the
\* by-value parameter: the controller stored and the calls made on it
StoreController(controller) == [controller |-> controller, log |-> <<>>]

\* lines 48-58: the canonical constructor. goalFn is the State-valued
\* callable it receives, param the state in which the delegating
\* constructor's own goalSource parameter is left when the call returns.
Canonical(which, goalFn, param, goal, requirements) ==
  /\ form = "none"
  /\ form' = which
  /\ goalArg' = goal
  /\ requirementsArg' = requirements
  /\ goalSource' = param
  /\ \E stored \in {StoreController(controllerArg)} :
       /\ m_controller' = stored.controller
       /\ nReset' = nReset + Count(stored.log, "Reset")
       /\ nCalculate' = nCalculate + Count(stored.log, "Calculate")
       /\ nGetSetpoint' = nGetSetpoint + Count(stored.log, "GetSetpoint")
  /\ m_measurement' = "measurementSource"
  /\ m_goal' = goalFn
  /\ m_useOutput' = "useOutput"
  /\ m_requirements' = RegisteredRequirements(requirements)
  /\ UNCHANGED controllerArg
  /\ LifecycleUnchanged

\* lines 48-58, called by the user with a State-valued goal source and a
\* requirements list out of lists
ConstructCanonical(lists) ==
  \E requirements \in lists :
    Canonical("canonical", UserStateFunction,
              [alive |-> FALSE, fn |-> NoCallable], ZeroState, requirements)

\* lines 70-79: position-valued goal source. The parameter goalSource is
\* destroyed when the constructor returns; the lambda stored in m_goal
\* still refers to it.
ConstructPositionSource(lists) ==
  \E requirements \in lists :
    Canonical("positionSource", PositionLambda,
              [alive |-> FALSE, fn |-> UserPositionFunction], ZeroState, requirements)

\* lines 91-96: constant State goal
ConstructConstState(goals, lists) ==
  \E goal \in goals, requirements \in lists :
    Canonical("constState", ConstStateLambda(goal),
              [alive |-> FALSE, fn |-> NoCallable], goal, requirements)

\* lines 108-114: constant position goal. The lambda returns a position, so
\* the constructor it delegates to is the one taking a position-valued
\* goalSource (lines 70-79), whose lambda refers to its own parameter.
ConstructConstPosition(goals, lists) ==
  \E goal \in goals, requirements \in lists :
    Canonical("constPosition", PositionLambda,
              [alive |-> FALSE, fn |-> ConstPositionLambda(goal)],
              MkState(goal, 0), requirements)

(* ------------------------------ callbacks ------------------------------ *)
\* what the user's goal function returns in a tick: a State for the
\* State-valued form, a position (zero velocity synthesized by the adapter)
\* for the position-valued form; the constant forms have no user function
UserGoals ==
  IF form = "canonical" THEN State
  ELSE IF form = "positionSource" THEN {MkState(p, 0) : p \in Position}
  ELSE {ZeroState}

Returned(v) == [fault |-> FALSE, value |-> v]

Thrown == [fault |-> TRUE, value |-> ZeroState]

\* a call of the position-valued callable fn
PositionOf(fn, userGoal) ==
  IF fn.kind = "userPosition" THEN userGoal.position ELSE fn.goal.position

\* line 77, State{goalSource(), 0_mps}, run inside m_goal: goalSource is the
\* constructor parameter the lambda refers to. Once that parameter is
\* destroyed the call is undefined: it may yield any position (the right
\* one included) or fail (std::bad_function_call, a bad jump).
PositionLambdaCall(param, userGoal) ==
  IF param.alive
  THEN {Returned(MkState(PositionOf(param.fn, userGoal), 0))}
  ELSE {Returned(MkState(q, 0)) : q \in Position} \cup {Thrown}

\* m_goal(): the outcomes of one call of the stored goal closure
GoalCall(fn, param, userGoal) ==
  IF fn.kind = "userState" THEN {Returned(userGoal)}
  ELSE IF fn.kind = "constState" THEN {Returned(fn.goal)}
  ELSE PositionLambdaCall(param, userGoal)

(* ------------------------------ lifecycle ------------------------------ *)
Calls == nInitialize + nExecute + nEnd

Constructed == form # "none"

\* what the caller holds apart from the command: nothing when the
\* reference refers to the member (the object is m_controller itself), a
\* controller of its own when it was handed a copy
ReferenceView(target, c) == IF target = "member" THEN FreshController ELSE c

\* a command whose controller is the caller's object, not a copy of it
CallerController_Shared(arg, member) == member

\* lines 48 and 141: the constructor takes the controller by value and the
\* member m_controller is an object of its own, so the caller's controller
\* arg stays what it was whatever the command's controller member becomes
CallerController(arg, member) == arg

\* a copy of the command whose controller is the original's object
OtherController_Shared(copy, member) == member

\* line 118: the defaulted copy constructor copies m_controller member-wise,
\* so the controller of the copy stays what it was whatever the
\* controller of this command becomes
OtherController(copy, member) == copy

\* a method that leaves the goal callback empty behind it
MembersUnchanged_Rebound ==
  /\ UNCHANGED <<form, goalArg, requirementsArg, goalSource,
                 m_measurement, m_useOutput, m_requirements>>
  /\ m_goal' = NoCallable

\* lines 120-138: the lifecycle methods and GetController assign no member;
\* they act on m_controller alone
MembersUnchanged ==
  UNCHANGED <<form, goalArg, requirementsArg, goalSource,
              m_measurement, m_goal, m_useOutput, m_requirements>>

ConstructionUnchanged ==
  /\ MembersUnchanged
  /\ controllerArg' = CallerController(controllerArg, m_controller')
  /\ other' = [other EXCEPT !.m_controller = OtherController(@, m_controller')]
  /\ reference' = [reference EXCEPT
                     !.written = FALSE,
                     !.observed = reference.written,
                     !.view = ReferenceView(reference.target, @)]

\* an Initialize that leaves the controller as it is
RunInitialize_NoReset(c) == [controller |-> c, log |-> <<>>]

\* an Initialize that also drives the output callback
RunInitialize_ZeroOutput(c) ==
  [controller |-> ControllerReset(c), log |-> <<"Reset", "useOutput">>]

\* line 120: void Initialize() override { m_controller.Reset(); }
\* on the controller c: the controller it leaves and the calls it makes
RunInitialize(c) == [controller |-> ControllerReset(c), log |-> <<"Reset">>]

Initialize ==
  /\ Constructed
  /\ Calls < MaxCalls
  /\ \E run \in {RunInitialize(m_controller)} :
       /\ m_controller' = run.controller
       /\ nReset' = nReset + Count(run.log, "Reset")
       /\ nCalculate' = nCalculate + Count(run.log, "Calculate")
       /\ nGetSetpoint' = nGetSetpoint + Count(run.log, "GetSetpoint")
       /\ nUseOutput' = nUseOutput + Count(run.log, "useOutput")
       /\ tick' = [NoTick EXCEPT !.op = "Initialize", !.log = run.log]
  /\ nInitialize' = nInitialize + 1
  /\ UNCHANGED <<nExecute, nEnd, nMeasurement, nGoal, lastOutput>>
  /\ ConstructionUnchanged

\* lines 123-124: the operands of
\*   m_useOutput(m_controller.Calculate(m_measurement(), m_goal()),
\*               m_controller.GetSetpoint())
\* The two arguments of m_useOutput are indeterminately sequenced, and so are
\* the two arguments of Calculate: each argument is evaluated whole, in
\* either order.
EvalOrders ==
  {<<"measurement", "goal", "Calculate", "GetSetpoint">>,
   <<"goal", "measurement", "Calculate", "GetSetpoint">>,
   <<"GetSetpoint", "measurement", "goal", "Calculate">>,
   <<"GetSetpoint", "goal", "measurement", "Calculate">>}

\* the calls one Execute makes: all operands then the output callback, or,
\* when the goal call throws, the operands up to it (nothing catches, the
\* exception leaves Execute)
ExecuteLog(order, faulted) ==
  IF faulted
  THEN Append(SubSeq(order, 1, IndexOf(order, "goal")), "throw")
  ELSE Append(order, "useOutput")

\* lines 123-124 as one evaluation: the calls made in the order chosen, on
\* the controller c, with the measurement callback returning m and the goal
\* closure ending in out. GetSetpoint returns the setpoint the controller
\* holds at the moment it is called.
RunExecute(c, order, m, userGoal, out) ==
  LET log == ExecuteLog(order, out.fault)
  IN  IF out.fault
      THEN [controller |-> c,
            outputs    |-> <<>>,
            tick       |-> [NoTick EXCEPT
                              !.op = "Execute", !.log = log, !.fault = TRUE,
                              !.measurement =
                                 IF "measurement" \in Range(log) THEN m ELSE 0,
                              !.userGoal = userGoal]]
      ELSE LET res  == ControllerCalculate(c, m, out.value)
               read == IF IndexOf(order, "GetSetpoint") < IndexOf(order, "Calculate")
                       THEN ControllerGetSetpoint(c)
                       ELSE ControllerGetSetpoint(res.ctrl)
           IN  [controller |-> res.ctrl,
                outputs    |-> <<[effort |-> res.effort, setpoint |-> read]>>,
                tick       |-> [op |-> "Execute", log |-> log, fault |-> FALSE,
                                interrupted |-> FALSE, resetsSeen |-> 0,
                                measurement |-> m, userGoal |-> userGoal,
                                goal |-> out.value,
                                calcMeasurement |-> m, calcGoal |-> out.value,
                                effort |-> res.effort, setpointRead |-> read]]

\* lines 122-125, with the measurement callback returning a value out of
\* measurements and the user's goal function one out of userGoals
ExecuteWith(measurements, userGoals) ==
  /\ Constructed
  /\ Calls < MaxCalls
  /\ \E order \in EvalOrders, m \in measurements, userGoal \in userGoals :
       \E out \in GoalCall(m_goal, goalSource, userGoal) :
         \E run \in {RunExecute(m_controller, order, m, userGoal, out)} :
           /\ nExecute' = nExecute + 1
           /\ nMeasurement' = nMeasurement + Count(run.tick.log, "measurement")
           /\ nGoal' = nGoal + Count(run.tick.log, "goal")
           /\ nUseOutput' = nUseOutput + Len(run.outputs)
           /\ nCalculate' = nCalculate + Count(run.tick.log, "Calculate")
           /\ nGetSetpoint' = nGetSetpoint + Count(run.tick.log, "GetSetpoint")
           /\ m_controller' = run.controller
           /\ lastOutput' = IF run.outputs = <<>> THEN lastOutput ELSE run.outputs[1]
           /\ tick' = [run.tick EXCEPT !.resetsSeen = nReset]
  /\ UNCHANGED <<nInitialize, nEnd, nReset>>
  /\ ConstructionUnchanged

\* an End that also resets the controller
EndController_Reset(c) == ControllerReset(c)

\* lines 127-129: the body of End names m_useOutput alone; the controller c
\* is the controller after End
EndController(c) == c

\* an End that zeroes the output only when the command was interrupted
RunEnd_OnlyInterrupted(interrupted) ==
  IF interrupted
  THEN [outputs |-> <<[effort |-> 0, setpoint |-> ZeroState]>>, log |-> <<"useOutput">>]
  ELSE [outputs |-> <<>>, log |-> <<>>]

\* lines 127-129: void End(bool interrupted) override {
\*   m_useOutput(0, State{Distance_t(0), Velocity_t(0)}); }
\* the values the output callback receives and the calls made
RunEnd(interrupted) ==
  [outputs |-> <<[effort |-> 0, setpoint |-> ZeroState]>>, log |-> <<"useOutput">>]

End ==
  /\ Constructed
  /\ Calls < MaxCalls
  /\ \E interrupted \in BOOLEAN :
       \E run \in {RunEnd(interrupted)} :
         /\ lastOutput' = IF run.outputs = <<>> THEN lastOutput
                          ELSE run.outputs[Len(run.outputs)]
         /\ nUseOutput' = nUseOutput + Len(run.outputs)
         /\ nCalculate' = nCalculate + Count(run.log, "Calculate")
         /\ nReset' = nReset + Count(run.log, "Reset")
         /\ tick' = [NoTick EXCEPT !.op = "End", !.log = run.log,
                                   !.interrupted = interrupted]
  /\ m_controller' = EndController(m_controller)
  /\ nEnd' = nEnd + 1
  /\ UNCHANGED <<nInitialize, nExecute, nMeasurement, nGoal, nGetSetpoint>>
  /\ ConstructionUnchanged

Execute == ExecuteWith(Position, UserGoals)

(* ------------------------------ accessor ------------------------------- *)
CountersUnchanged ==
  UNCHANGED <<nInitialize, nExecute, nEnd, nMeasurement, nGoal, nUseOutput,
              nReset, nCalculate, nGetSetpoint, tick, lastOutput>>

\* an accessor that returns the controller by value
GetControllerResult_Copy == "copy"

\* lines 136-138: frc::ProfiledPIDController<Distance>& GetController()
\* { return m_controller; }: what the returned reference refers to
GetControllerResult == "member"

\* lines 136-138: the caller takes the reference
GetController ==
  /\ Constructed
  /\ ~reference.held
  /\ reference' = [held |-> TRUE, target |-> GetControllerResult,
                   written |-> FALSE, observed |-> FALSE,
                   view |-> ReferenceView(GetControllerResult, m_controller)]
  /\ UNCHANGED <<m_controller, controllerArg, other>>
  /\ MembersUnchanged
  /\ CountersUnchanged

\* The caller changes the controller through the reference it holds, here
\* by calling Reset() on it, between two lifecycle calls. The object changed
\* is the command's member when the reference refers to it.
WriteThroughReference ==
  /\ reference.held
  /\ ~reference.written
  /\ \E object \in {IF reference.target = "member" THEN m_controller ELSE reference.view} :
       /\ reference' = [reference EXCEPT !.written = TRUE, !.observed = FALSE,
                                         !.view = ControllerReset(object)]
       /\ m_controller' = IF reference.target = "member"
                          THEN ControllerReset(object)
                          ELSE m_controller
  /\ controllerArg' = CallerController(controllerArg, m_controller')
  /\ other' = [other EXCEPT !.m_controller = OtherController(@, m_controller')]
  /\ MembersUnchanged
  /\ CountersUnchanged

\* Command::IsFinished, the default the command base supplies: false
CommandIsFinished == FALSE

\* an override that ends the command once the controller has settled
IsFinished_Settled(c) == c.anchored /\ c.totalError = 0

\* lines 120-129: the class overrides Initialize, Execute and End and
\* declares no IsFinished, so IsFinished() on a command whose controller is
\* c is the base's (lines 21-22: "Runs forever by default")
IsFinished(c) == CommandIsFinished

(* ------------------------------- copies -------------------------------- *)
\* line 118: ProfiledPIDCommand(const ProfiledPIDCommand& other) = default;
\* the copy's controller is a memberwise copy of the source's m_controller
CopyController(c) == c

\* a second command copy-constructed from this one
CopyConstruct ==
  /\ Constructed
  /\ ~other.exists
  /\ other' = [exists |-> TRUE, m_controller |-> CopyController(m_controller)]
  /\ UNCHANGED <<m_controller, controllerArg, reference>>
  /\ MembersUnchanged
  /\ CountersUnchanged

\* what a lifecycle call on the copy leaves in the other controllers: the
\* copy's m_controller becomes c, this command's and the caller's are
\* separate objects
OnCopy(c) ==
  /\ other.exists
  /\ c /= other.m_controller
  /\ other' = [other EXCEPT !.m_controller = c]
  /\ m_controller' = OtherController(m_controller, c)
  /\ controllerArg' = CallerController(controllerArg, c)
  /\ UNCHANGED reference
  /\ MembersUnchanged
  /\ CountersUnchanged

\* line 120, called on the copy
CopyInitialize == OnCopy(RunInitialize(other.m_controller).controller)

\* lines 122-125, called on the copy: the copy holds copies of the same
\* callbacks
CopyExecute(measurements, userGoals) ==
  \E order \in EvalOrders, m \in measurements, userGoal \in userGoals :
    \E out \in {o \in GoalCall(m_goal, goalSource, userGoal) : ~o.fault} :
      OnCopy(RunExecute(other.m_controller, order, m, userGoal, out).controller)

(* ------------------------- callbacks that raise ------------------------ *)
\* the calls of lines 123-124 that may raise: the measurement callback, the
\* goal callback, the controller's Calculate
FaultPoints == {"measurement", "goal", "Calculate"}

\* the calls one Execute makes when the call faultAt raises: the operands
\* evaluated before it, the call itself, then the exception leaving Execute
\* (lines 122-125 hold no try block)
ExecuteLogAt(order, faultAt) ==
  Append(SubSeq(order, 1, IndexOf(order, faultAt)), "throw")

\* an Execute that catches the exception and drives the output to zero
RunExecuteRaising_ZeroOutput(c, order, m, userGoal, goal, faultAt, after) ==
  LET log == ExecuteLogAt(order, faultAt)
  IN  [controller |-> IF faultAt = "Calculate" THEN after ELSE c,
       outputs    |-> <<[effort |-> 0, setpoint |-> ZeroState]>>,
       tick       |-> [NoTick EXCEPT
                         !.op = "Execute", !.log = Append(log, "useOutput"),
                         !.fault = TRUE, !.userGoal = userGoal]]

\* lines 123-124 as one evaluation in which the call faultAt raises: the
\* measurement callback would return m, the goal closure goal; Calculate,
\* when it is the call that raises, leaves the controller as after. The
\* call of m_useOutput is never reached.
RunExecuteRaising(c, order, m, userGoal, goal, faultAt, after) ==
  LET log     == ExecuteLogAt(order, faultAt)
      sampled == "measurement" \in Range(log) /\ faultAt /= "measurement"
      asked   == "goal" \in Range(log) /\ faultAt /= "goal"
  IN  [controller |-> IF faultAt = "Calculate" THEN after ELSE c,
       outputs    |-> <<>>,
       tick       |-> [NoTick EXCEPT
                         !.op = "Execute", !.log = log, !.fault = TRUE,
                         !.measurement = IF sampled THEN m ELSE 0,
                         !.userGoal = userGoal,
                         !.goal = IF asked THEN goal ELSE ZeroState,
                         !.calcMeasurement =
                            IF faultAt = "Calculate" THEN m ELSE 0,
                         !.calcGoal =
                            IF faultAt = "Calculate" THEN goal ELSE ZeroState]]

\* lines 122-125 in a tick where one of the callbacks or Calculate raises.
\* A Calculate that raises may have advanced the controller or not.
ExecuteRaising(measurements, userGoals) ==
  /\ Constructed
  /\ Calls < MaxCalls
  /\ \E order \in EvalOrders, m \in measurements, userGoal \in userGoals,
        faultAt \in FaultPoints :
       \E out \in {o \in GoalCall(m_goal, goalSource, userGoal) : ~o.fault} :
         \E after \in {m_controller} \cup
                      {ControllerCalculate(m_controller, m, out.value).ctrl :
                         x \in {faultAt} \cap {"Calculate"}} :
           \E run \in {RunExecuteRaising(m_controller, order, m, userGoal,
                                         out.value, faultAt, after)} :
             /\ nExecute' = nExecute + 1
             /\ nMeasurement' = nMeasurement + Count(run.tick.log, "measurement")
             /\ nGoal' = nGoal + Count(run.tick.log, "goal")
             /\ nUseOutput' = nUseOutput + Len(run.outputs)
             /\ nCalculate' = nCalculate + Count(run.tick.log, "Calculate")
             /\ nGetSetpoint' = nGetSetpoint + Count(run.tick.log, "GetSetpoint")
             /\ m_controller' = run.controller
             /\ lastOutput' = IF run.outputs = <<>> THEN lastOutput
                              ELSE run.outputs[1]
             /\ tick' = [run.tick EXCEPT !.resetsSeen = nReset]
  /\ UNCHANGED <<nInitialize, nEnd, nReset>>
  /\ ConstructionUnchanged

(* ---------------------------- specifications --------------------------- *)
\* the default argument of line 52: no requirements
DefaultRequirements == {<<>>}

\* The command under every construction form, every goal and measurement
\* value and every lifecycle sequence of at most MaxCalls calls, built with
\* the default (empty) requirements list.
Next ==
  \/ ConstructCanonical(DefaultRequirements)
  \/ ConstructPositionSource(DefaultRequirements)
  \/ ConstructConstState(State, DefaultRequirements)
  \/ ConstructConstPosition(Position, DefaultRequirements)
  \/ Initialize
  \/ Execute
  \/ End

Spec == Init /\ [][Next]_vars

\* The command under every construction form and every requirements list,
\* driven through the same lifecycle with the callbacks returning zero.
ExecuteZero == ExecuteWith({0}, {ZeroState})

NextRequirements ==
  \/ ConstructCanonical(RequirementLists)
  \/ ConstructPositionSource(RequirementLists)
  \/ ConstructConstState({ZeroState}, RequirementLists)
  \/ ConstructConstPosition({0}, RequirementLists)
  \/ Initialize
  \/ ExecuteZero
  \/ End

SpecRequirements == Init /\ [][NextRequirements]_vars

\* The command with a caller that takes the controller through
\* GetController and changes it between lifecycle calls: the two forms
\* whose goal closure owns what it calls, every measurement value, the
\* goal at rest at zero or moving at the far end.
ExtremeGoals == {ZeroState, MkState(MaxPos, MaxVel)}

ExecuteExtremes == ExecuteWith(Position, UserGoals \cap ExtremeGoals)

NextAccessor ==
  \/ ConstructCanonical(DefaultRequirements)
  \/ ConstructConstState(ExtremeGoals, DefaultRequirements)
  \/ Initialize
  \/ ExecuteExtremes
  \/ End
  \/ GetController
  \/ WriteThroughReference

SpecAccessor == Init /\ [][NextAccessor]_vars

\* the specification of the ticks in which a callback or Calculate raises:
\* the two constructions whose goal closure is sound, the lifecycle calls,
\* and an Execute that raises
ExecuteAtRest == ExecuteWith({0}, UserGoals \cap ExtremeGoals)

ExecuteRaisingAtRest == ExecuteRaising({0}, UserGoals \cap ExtremeGoals)

NextFaults ==
  \/ ConstructCanonical(DefaultRequirements)
  \/ ConstructConstState(ExtremeGoals, DefaultRequirements)
  \/ Initialize
  \/ ExecuteAtRest
  \/ ExecuteRaisingAtRest
  \/ End

SpecFaults == Init /\ [][NextFaults]_vars

\* the specification of two commands side by side: this command, built
\* from the caller's controller, and a copy of it, each run through its
\* lifecycle
CopyExecuteAtRest == CopyExecute({0}, UserGoals \cap ExtremeGoals)

NextCopies ==
  \/ ConstructCanonical(DefaultRequirements)
  \/ ConstructConstState(ExtremeGoals, DefaultRequirements)
  \/ Initialize
  \/ ExecuteAtRest
  \/ End
  \/ CopyConstruct
  \/ CopyInitialize
  \/ CopyExecuteAtRest

SpecCopies == Init /\ [][NextCopies]_vars

(* ------------------------------- claims -------------------------------- *)
\* an Execute that ran to its end (no callback threw)
Ticked == tick.op = "Execute" /\ ~tick.fault

ZeroOutput == [effort |-> 0, setpoint |-> ZeroState]

\* C1: in every Execute the setpoint handed to the output callback is read
\* by a GetSetpoint call made after that tick's Calculate and before the
\* output call, so it is the setpoint the controller holds after Calculate.
C1_SetpointAfterCalculate ==
  Ticked =>
    /\ IndexOf(tick.log, "Calculate") < IndexOf(tick.log, "GetSetpoint")
    /\ IndexOf(tick.log, "GetSetpoint") < IndexOf(tick.log, "useOutput")
    /\ lastOutput.setpoint = ControllerGetSetpoint(m_controller)

\* C2: in every Execute the measurement is sampled before the goal, and
\* both before Calculate is called.
C2_MeasurementGoalCalculate ==
  Ticked =>
    /\ IndexOf(tick.log, "measurement") < IndexOf(tick.log, "goal")
    /\ IndexOf(tick.log, "goal") < IndexOf(tick.log, "Calculate")

\* C3: after any sequence of lifecycle calls the controller has computed
\* once per Execute and the output callback has run once per Execute and
\* once per End.
C3_CallCounts ==
  /\ nCalculate = nExecute
  /\ nUseOutput = nExecute + nEnd

\* C4: in one Execute the measurement and goal callbacks are each called
\* exactly once, Calculate receives exactly the two values they returned in
\* that tick, and the output callback receives the effort Calculate returned.
C4_InputFreshness ==
  tick.op = "Execute" =>
    /\ Count(tick.log, "measurement") = 1
    /\ Count(tick.log, "goal") = 1
    /\ Count(tick.log, "Calculate") = 1
    /\ tick.calcMeasurement = tick.measurement
    /\ tick.calcGoal = tick.goal
    /\ lastOutput.effort = tick.effort

\* C5: every End, interrupted or not, calls the output callback exactly
\* once, with effort 0 and the zero State, and computes nothing; so the last
\* value the output received after an End is (0, State{0, 0}).
C5_CleanShutdown ==
  [][nEnd' = nEnd + 1 =>
       /\ nUseOutput' = nUseOutput + 1
       /\ nCalculate' = nCalculate
       /\ lastOutput' = ZeroOutput
       /\ tick'.log = <<"useOutput">>]_vars

\* C5 witness: an End with interrupted = false after Initialize and Execute,
\* the output having held a non-zero value before
C5_Witness ==
  /\ tick.op = "End"
  /\ ~tick.interrupted
  /\ nInitialize = 1
  /\ nExecute = 1
  /\ nCalculate = 1
  /\ lastOutput = ZeroOutput

\* C6: every Initialize resets the controller exactly once, nothing else
\* resets it (as many Resets as Initialize calls), and every Calculate runs
\* after the Reset of every Initialize called before it.
C6_ResetOnEntry ==
  /\ nReset = nInitialize
  /\ tick.op = "Initialize" => tick.log = <<"Reset">>
  /\ Ticked => tick.resetsSeen = nInitialize

\* C6 witness: Initialize, Execute, Initialize, or an Execute that follows
\* an Initialize
C6_Witness ==
  /\ Ticked
  /\ nInitialize >= 1
  /\ tick.resetsSeen = nInitialize
  /\ nCalculate >= 1

\* C7: a command built with a position-valued goal source passes, on every
\* Execute after construction, State{p, 0} to Calculate, p being what the
\* user's position function returns in that tick.
C7_PositionSourceGoal ==
  (form = "positionSource" /\ tick.op = "Execute") =>
    /\ ~tick.fault
    /\ tick.calcGoal = tick.userGoal

\* C8: a command built with a constant State goal passes exactly that State,
\* position and velocity, to Calculate on every Execute, whatever Initialize
\* or End calls come between.
C8_ConstantStateGoal ==
  (form = "constState" /\ tick.op = "Execute") =>
    /\ Count(tick.log, "Calculate") = 1
    /\ tick.calcGoal = goalArg

\* C8 witness: a second Execute, after an End or Initialize, of a command
\* built with a goal of non-zero position and velocity
C8_Witness ==
  /\ form = "constState"
  /\ goalArg.position # 0
  /\ goalArg.velocity # 0
  /\ Ticked
  /\ nExecute >= 2
  /\ nInitialize + nEnd >= 1

\* C9: a command built with a constant position goal g passes State{g, 0}
\* to Calculate on every Execute.
C9_ConstantPositionGoal ==
  (form = "constPosition" /\ tick.op = "Execute") =>
    /\ ~tick.fault
    /\ tick.calcGoal = goalArg

\* C10: under each construction form the requirement set the command holds
\* is the set of distinct subsystems of the list given at construction, and
\* no lifecycle call changes it.
C10_Requirements ==
  Constructed => m_requirements = {s \in Subsystems : \E i \in 1..Len(requirementsArg) : requirementsArg[i] = s}

\* C10 witness: a list naming one subsystem twice, held once, after
\* lifecycle calls, under the form that delegates twice
C10_Witness ==
  /\ form = "constPosition"
  /\ Len(requirementsArg) = 2
  /\ requirementsArg[1] = requirementsArg[2]
  /\ Cardinality(m_requirements) = 1
  /\ nInitialize >= 1
  /\ nExecute >= 1
  /\ nEnd >= 1

\* C11: construction calls nothing on the controller and stores it as it
\* was passed: before the first lifecycle call the command's controller is
\* the constructor's argument, with no Reset, Calculate or GetSetpoint made,
\* and a first Initialize resets exactly that state.
C11_ConstructionKeepsController ==
  /\ (Constructed /\ Calls = 0) =>
       /\ m_controller = controllerArg
       /\ nReset = 0
       /\ nCalculate = 0
       /\ nGetSetpoint = 0
  /\ (Constructed /\ Calls = 1 /\ tick.op = "Initialize") =>
       m_controller = ControllerReset(controllerArg)

\* C11 witness: a command built from a controller that has already run,
\* before any lifecycle call (a Reset at construction would show)
C11_Witness ==
  /\ Constructed
  /\ Calls = 0
  /\ controllerArg = UsedController
  /\ m_controller = UsedController

\* C12: the command has no termination condition of its own: in every
\* state reached by Initialize and Execute calls alone IsFinished is false,
\* so its run ends only when the scheduler calls End.
C12_RunsForever ==
  (Constructed /\ nEnd = 0) => ~IsFinished(m_controller)

\* C12 witness: after Initialize and two Executes the controller has
\* settled (profile anchored, no accumulated error) and the command still
\* runs
C12_Witness ==
  /\ Constructed
  /\ nEnd = 0
  /\ nInitialize >= 1
  /\ nExecute >= 2
  /\ Ticked
  /\ m_controller.anchored
  /\ m_controller.totalError = 0
  /\ ~IsFinished(m_controller)

\* C13: once the command is constructed no operation (Initialize, Execute,
\* End, GetController, a write through the returned reference) rebinds the
\* measurement, goal or output callback, and the reference GetController
\* gave keeps referring to the same controller.
C13_NoRebinding ==
  [][Constructed =>
       /\ m_measurement' = m_measurement
       /\ m_goal' = m_goal
       /\ m_useOutput' = m_useOutput
       /\ reference.held => reference'.target = reference.target]_vars

\* C13 witness: after GetController and all three lifecycle calls the
\* callbacks are those bound by the constructor
C13_Witness ==
  /\ form = "canonical"
  /\ reference.held
  /\ nInitialize >= 1
  /\ nExecute >= 1
  /\ nEnd >= 1
  /\ m_measurement = "measurementSource"
  /\ m_goal = UserStateFunction
  /\ m_useOutput = "useOutput"

\* C16: GetController changes nothing of the command and returns the
\* command's own controller: what the caller writes through the reference
\* is the state of m_controller, and the next Execute computes from it.
C16_AccessorAliases ==
  [][/\ (~reference.held /\ reference'.held) =>
          UNCHANGED <<m_controller, m_measurement, m_goal, m_useOutput,
                      nReset, nCalculate, nGetSetpoint, nUseOutput, tick,
                      lastOutput>>
     /\ reference'.written => m_controller' = reference'.view
     /\ (reference.written /\ nExecute' = nExecute + 1 /\ ~tick'.fault) =>
          m_controller' =
            ControllerCalculate(reference.view, tick'.calcMeasurement,
                                tick'.calcGoal).ctrl]_vars

\* C16 witness: a command built from a controller that has run; the caller
\* resets it through the reference and the Execute that follows computes
\* from the reset state (no accumulated error left)
C16_Witness ==
  /\ reference.observed
  /\ Ticked
  /\ nInitialize = 0
  /\ nExecute = 1
  /\ controllerArg = UsedController
  /\ tick.measurement = 0
  /\ tick.calcGoal = ZeroState
  /\ m_controller.totalError = 0

\* C14: an Initialize does nothing but reset the controller: it samples
\* neither the measurement nor the goal, runs no Calculate, reads no
\* setpoint, calls the output callback not at all and leaves the last
\* output and the bound callbacks as they were.
C14_InitializeOnlyResets ==
  [][nInitialize' = nInitialize + 1 =>
       /\ m_controller' = ControllerReset(m_controller)
       /\ nReset' = nReset + 1
       /\ UNCHANGED <<nMeasurement, nGoal, nCalculate, nGetSetpoint,
                      nUseOutput, lastOutput>>
       /\ UNCHANGED <<m_measurement, m_goal, m_useOutput, m_requirements>>]_vars

\* C14 witness: an Initialize called after an Execute whose output was not
\* zero; the output callback still holds that value
C14_Witness ==
  /\ tick.op = "Initialize"
  /\ nExecute >= 1
  /\ nUseOutput = nExecute
  /\ nEnd = 0
  /\ lastOutput /= NoOutput
  /\ lastOutput.effort /= 0
  /\ ~m_controller.anchored

\* C15: an End leaves the controller exactly as it was (no Reset, no
\* Calculate, no GetSetpoint) and samples neither the measurement nor the
\* goal; an Execute that follows an End without an Initialize in between
\* computes from the controller state End left, which is the state before
\* the End.
C15_EndKeepsController ==
  [][/\ nEnd' = nEnd + 1 =>
          /\ m_controller' = m_controller
          /\ UNCHANGED <<nReset, nCalculate, nGetSetpoint, nMeasurement, nGoal>>
     /\ (tick.op = "End" /\ nExecute' = nExecute + 1 /\ ~tick'.fault) =>
          m_controller' =
            ControllerCalculate(m_controller, tick'.calcMeasurement,
                                tick'.calcGoal).ctrl]_vars

\* C15 witness: Execute, End, Execute with no Initialize: the second Execute
\* ran on a controller still anchored with its accumulated error
C15_Witness ==
  /\ tick.op = "Execute"
  /\ ~tick.fault
  /\ nInitialize = 0
  /\ nEnd = 1
  /\ nExecute = 2
  /\ controllerArg = FreshController
  /\ lastOutput /= ZeroOutput
  /\ m_controller.anchored
  /\ m_controller.totalError > 0

\* C17: an Execute in which the measurement callback, the goal callback or
\* Calculate raises ends with the exception leaving Execute: the output
\* callback is not called in that tick, the command emits no zero output of
\* its own (the last output stays what it was), and nothing of End runs.
C17_FaultPropagates ==
  [][(nExecute' = nExecute + 1 /\ tick'.fault) =>
       /\ tick'.log[Len(tick'.log)] = "throw"
       /\ tick'.log[Len(tick'.log) - 1] \in FaultPoints
       /\ "useOutput" \notin Range(tick'.log)
       /\ nUseOutput' = nUseOutput
       /\ lastOutput' = lastOutput
       /\ nEnd' = nEnd]_vars

\* C17 witness: Calculate raises in the tick after one that delivered a
\* non-zero output; the output callback has been called once and still
\* holds that value
C17_Witness ==
  /\ tick.op = "Execute"
  /\ tick.fault
  /\ "Calculate" \in Range(tick.log)
  /\ nExecute = 2
  /\ nUseOutput = 1
  /\ nEnd = 0
  /\ lastOutput /= ZeroOutput

\* C18: the controller is per instance. The caller's controller never
\* changes once the command is built from it; a copy-constructed command
\* starts with a copy of the source's controller; an Initialize, Execute or
\* End on this command leaves the copy's controller alone, and a lifecycle
\* call on the copy leaves this command's controller alone.
C18_PerInstanceController ==
  [][Constructed =>
       /\ controllerArg' = controllerArg
       /\ (~other.exists /\ other'.exists) =>
            /\ other'.m_controller = m_controller
            /\ m_controller' = m_controller
       /\ (nInitialize' + nExecute' + nEnd' = Calls + 1) =>
            other'.m_controller = other.m_controller
       /\ (other.exists /\ other'.m_controller /= other.m_controller) =>
            m_controller' = m_controller]_vars

\* C18 witness: the caller's controller, this command's and the copy's hold
\* three different states after lifecycle calls on both commands
C18_Witness ==
  /\ other.exists
  /\ Calls >= 1
  /\ controllerArg = UsedController
  /\ m_controller /= controllerArg
  /\ other.m_controller /= controllerArg
  /\ other.m_controller /= m_controller
  /\ other.m_controller.anchored

====
